---- MODULE Spec2Model ----
(***************************************************************************)
(* Model of the report client in src/app/api.py: one ReportCreator that    *)
(* POSTs "create report" requests and, for every accepted report, one      *)
(* ReportChecker that polls the report with GETs until it is retrieved,    *)
(* its deadline passes or the request fails.                               *)
(*                                                                         *)
(* Time is counted in tenths of a second (the resolution of the 0.8 s      *)
(* pause between GETs).  Every asyncio.sleep and every request in flight   *)
(* is an event with a time; the clock jumps from one event time to the     *)
(* next.  The latency of a request is drawn when it is sent (PostLatencies, *)
(* GetLatencies), its answer is drawn when it arrives.                     *)
(***************************************************************************)
EXTENDS Integers, Sequences, FiniteSets

\* ------------------------------------------------------------ settings.py
MIN_TIME_FOR_RETRIEVING_REPORT_IN_SECONDS == 30
MAX_TIME_FOR_RETRIEVING_REPORT_IN_SECONDS == 300
TIME_BETWEEN_REQUESTS_FOR_CREATING_REPORTS_IN_SECONDS == 60
\* 0.8 seconds, in tenths of a second
TIME_BETWEEN_GET_REQUESTS_IN_TENTHS == 8
REPORT_RETRIEVED_STATUS_CODE == 200
REQUESTS_FOR_CREATING_REPORT_SUCCESSFULLY_SENT_STATUS_CODE == 201
REPORT_STILL_NOT_AVAILABLE_STATUS_CODE == 202
REPORT_ALREADY_EXISTS_STATUS_CODE == 409

\* tenths of a second in one second
TicksPerSecond == 10

\* ------------------------------------------------------------------ bounds
\* report identifiers (uuid4 values) the creator may draw, one per POST
MaxReports == 3
\* GETs the ReportCheckers may send, all together
MaxGets == 2

\* ------------------------------------------------------- environment inputs
\* statuses the service answers a POST with: accepted, conflict, other
\* client/server errors, and 2xx codes the creator does not expect
PostStatuses == {201, 409, 418, 500, 200}
\* statuses the service answers a GET with
GetStatuses == {200, 202, 204, 404}
\* the "value" field of the body of a 200 answer
Values == {"x", "y"}
\* latency of a POST, in tenths of a second
PostLatencies == {0, 1}
\* latency of a GET, in tenths of a second; the last one brings the answer of
\* a checker's first GET to the very deadline of a report accepted at once
GetLatencies ==
    {0, (MAX_TIME_FOR_RETRIEVING_REPORT_IN_SECONDS
           - MIN_TIME_FOR_RETRIEVING_REPORT_IN_SECONDS) * TicksPerSecond}
\* UTC offset (seconds) of the local time zone of the client
LocalUtcOffsets == {0, 10800}

VARIABLES
    now,          \* the UTC clock of the client, tenths of a second
    utcoffset,    \* UTC offset of the client's local time zone, seconds
    halted,       \* SystemExit was raised: the event loop is gone
    exitArgs,     \* the arguments SystemExit was raised with
    creator,      \* the ReportCreator and the position of its live coroutine
    nextId,       \* the next fresh uuid4 value
    open,         \* the AsyncClients inside their "async with" block
    pollers,      \* report id -> the ReportChecker created for it
    sink,         \* the lines of results.csv
    posts         \* history: every POST sent, with its answer

vars == <<now, utcoffset, halted, exitArgs, creator, nextId, open, pollers,
          sink, posts>>

\* -------------------------------------------------------------- pure parts

\* httpx.Response.is_success
is_success(status) == status >= 200 /\ status <= 299

\* ReportBase._check_response: the exception it raises, or "ok"
_check_response(status, expected) ==
    IF ~is_success(status) THEN "HTTPStatusError"
    ELSE IF status \notin expected THEN "UnexpectedAPIStatusCode"
    ELSE "ok"

ReportCreator_expected_2xx_status_codes ==
    {REQUESTS_FOR_CREATING_REPORT_SUCCESSFULLY_SENT_STATUS_CODE}

ReportChecker_expected_2xx_status_codes ==
    {REPORT_RETRIEVED_STATUS_CODE, REPORT_STILL_NOT_AVAILABLE_STATUS_CODE}

ReportCreator_sleeping_time ==
    TIME_BETWEEN_REQUESTS_FOR_CREATING_REPORTS_IN_SECONDS * TicksPerSecond

ReportChecker_sleeping_time ==
    MIN_TIME_FOR_RETRIEVING_REPORT_IN_SECONDS * TicksPerSecond

\* The Date header of an answer stamped at server time t (tenths): the format
\* '%a, %d %b %Y %H:%M:%S %Z' carries whole seconds of UTC.
DateHeader(t) == t \div TicksPerSecond

\* datetime.timestamp() of a naive datetime: the datetime is read as local
\* time, so the UTC offset is subtracted.  Result in tenths of a second.
naive_timestamp(naiveTenths, offset) == naiveTenths - offset * TicksPerSecond

\* ReportCreator.__get_timestamp_from_response: strptime gives a naive
\* datetime (whole seconds), .timestamp() reads it as local time.
get_timestamp_from_response(date, offset) ==
    naive_timestamp(date * TicksPerSecond, offset)

\* datetime.utcnow().timestamp(): the naive UTC time read as local time
utcnow_timestamp(t, offset) == naive_timestamp(t, offset)


\* Variant of check_time_elapsed: the operands of the subtraction swapped
check_time_elapsed_swapped(t, ts, offset) ==
    LET time_elapsed == ts - utcnow_timestamp(t, offset)
    IN  [raise   |-> time_elapsed >
                       MAX_TIME_FOR_RETRIEVING_REPORT_IN_SECONDS * TicksPerSecond,
         elapsed |-> time_elapsed]

\* Variant of check_time_elapsed: the deadline is checked after the sleep
\* between two GETs, not before it
check_time_elapsed_after_sleep(t, ts, offset) ==
    LET time_elapsed == utcnow_timestamp(t + TIME_BETWEEN_GET_REQUESTS_IN_TENTHS,
                                         offset) - ts
    IN  [raise   |-> time_elapsed >
                       MAX_TIME_FOR_RETRIEVING_REPORT_IN_SECONDS * TicksPerSecond,
         elapsed |-> time_elapsed]

\* Variant of check_time_elapsed: the deadline compared with >= instead of >
check_time_elapsed_ge(t, ts, offset) ==
    LET time_elapsed == utcnow_timestamp(t, offset) - ts
    IN  [raise   |-> time_elapsed >=
                       MAX_TIME_FOR_RETRIEVING_REPORT_IN_SECONDS * TicksPerSecond,
         elapsed |-> time_elapsed]

\* ReportChecker.__check_time_elapsed at local UTC time t for a report created
\* at timestamp ts: whether TooMuchTimePassed is raised, and the time elapsed
check_time_elapsed(t, ts, offset) ==
    LET time_elapsed == utcnow_timestamp(t, offset) - ts
    IN  [raise   |-> time_elapsed >
                       MAX_TIME_FOR_RETRIEVING_REPORT_IN_SECONDS * TicksPerSecond,
         elapsed |-> time_elapsed]

\* Variant of ReportBase_check_exception: an HTTP error status raises
\* SystemExit like an unexpected 2xx status does
ReportBase_check_exception_exits(status) ==
    [retry |-> FALSE, sleep |-> FALSE, exit |-> TRUE, args |-> <<>>]

\* ReportBase._check_exception: pass
ReportBase_check_exception(status) ==
    [retry |-> FALSE, sleep |-> FALSE, exit |-> FALSE, args |-> <<>>]

\* Variant of ReportCreator_check_exception: the else branch only logs, it
\* does not raise SystemExit
ReportCreator_check_exception_returns(status) ==
    IF status = REPORT_ALREADY_EXISTS_STATUS_CODE
    THEN [retry |-> TRUE, sleep |-> FALSE, exit |-> FALSE, args |-> <<>>]
    ELSE [retry |-> FALSE, sleep |-> FALSE, exit |-> FALSE, args |-> <<>>]

\* Variant of ReportCreator_check_exception: every HTTP error status is
\* retried the way 409 is
ReportCreator_check_exception_retries_all(status) ==
    [retry |-> TRUE, sleep |-> FALSE, exit |-> FALSE, args |-> <<>>]

\* Variant of ReportCreator_check_exception: the retry calls self._run() with
\* the default sleep=True
ReportCreator_check_exception_sleeps(status) ==
    IF status = REPORT_ALREADY_EXISTS_STATUS_CODE
    THEN [retry |-> TRUE, sleep |-> TRUE, exit |-> FALSE, args |-> <<>>]
    ELSE [retry |-> FALSE, sleep |-> FALSE, exit |-> TRUE, args |-> <<0>>]

\* ReportCreator._check_exception: on 409 self._run(sleep=False), otherwise
\* raise SystemExit(0)
ReportCreator_check_exception(status) ==
    IF status = REPORT_ALREADY_EXISTS_STATUS_CODE
    THEN [retry |-> TRUE, sleep |-> FALSE, exit |-> FALSE, args |-> <<>>]
    ELSE [retry |-> FALSE, sleep |-> FALSE, exit |-> TRUE, args |-> <<0>>]

\* ReportBase._run, except exc.UnexpectedAPIStatusCode: raise SystemExit()
UnexpectedAPIStatusCode_exit == [exit |-> TRUE, args |-> <<>>]

\* The exit status of the interpreter for the arguments SystemExit carries:
\* no argument is code None, which exits with status 0
ExitStatus(args) == IF args = <<>> THEN 0 ELSE args[1]

\* Variant of _run_default_sleep: the next cycle is started as
\* self._run(sleep=False)
_run_default_sleep_off == FALSE

\* The sleep flag ReportCreator._send_request leaves to self._run(): the
\* default of the parameter
_run_default_sleep == TRUE

\* Variant of checker_connect_sleep: report_checker.connect(sleep=False)
checker_connect_sleep_off == FALSE

\* The sleep flag of report_checker.connect(sleep=True)
checker_connect_sleep == TRUE

\* Variant of gather_start: the two coroutines awaited one after the other,
\* so that self._run() starts after the checker's initial delay at the earliest
gather_start_sequential(t) == t + ReportChecker_sleeping_time

\* asyncio.gather(report_checker.connect(sleep=True), self._run()) called at
\* time t: the time at which the task of self._run() starts to run
gather_start(t) == t

\* Variant of ReportChecker_client: the checker is handed the client of the
\* ReportCreator and sends its GETs through it
ReportChecker_client_shared(fresh, creatorClient) == creatorClient

\* report_checker.connect: ReportBase.connect sets the checker's _client to
\* the AsyncClient it constructs itself (fresh), not to the client of the
\* ReportCreator that created the checker
ReportChecker_client(fresh, creatorClient) == fresh

\* Variant of connect_retry_open: the retry runs inside the "async with"
\* block, so the client of the failed cycle is still open when the next one
\* is constructed
connect_retry_open_nested(op, old, new) == op \cup {new}

\* ReportBase.connect on httpx.ConnectTimeout, for the set op of open clients:
\* the except clause is outside the "async with" block, so the client of the
\* failed cycle (old) is closed first, and then connect(sleep=sleep) opens the
\* next one (new)
connect_retry_open(op, old, new) == (op \ {old}) \cup {new}

\* Variant of in_loop: the body of the loop runs before the status is tested
in_loop_do_while(status) == TRUE

\* "while response.status_code != RETRIEVED" of ReportChecker._send_request:
\* whether the body of the loop, which starts with the deadline check, runs
\* for an answer with this status
in_loop(status) == status # REPORT_RETRIEVED_STATUS_CODE

\* Variant of catching_connect: the checker is awaited as
\* report_checker._run(), so a ConnectTimeout of its GET leaves the gather
\* and is caught by the connect of the ReportCreator
catching_connect_root(id) == 0

\* The owner of the connect call that catches a ConnectTimeout raised by a
\* GET of checker id (0 for the ReportCreator): the checker is awaited as
\* report_checker.connect(sleep=True), so the connect of the checker itself
catching_connect(id) == id

\* Variant of gather_raised: the gather cancels the awaitables still running
\* when one of them raises
gather_raised_cancels(ps) ==
    [id \in DOMAIN ps |->
        IF ps[id].pc \in {"sleep", "get", "cadence"}
        THEN [ps[id] EXCEPT !.pc = "done", !.outcome = "cancelled"]
        ELSE ps[id]]

\* asyncio.gather(report_checker.connect(sleep=True), self._run()) when
\* self._run() raises, for the checkers ps: the exception goes to the
\* coroutine awaiting the gather, the other awaitables are not cancelled and
\* run on
gather_raised(ps) == ps

\* Variant of add_new_line_to_csv: the line holds the time of retrieval
add_new_line_to_csv_now(file, id, p, value, t) ==
    Append(file, [id |-> id, timestamp |-> utcnow_timestamp(t, utcoffset),
                  value |-> value])

\* ReportChecker.__add_new_line_to_csv, for checker p retrieving at time t:
\* the line holds the checker's creation timestamp and the value.  The field
\* id is history: the report the line was written for.
add_new_line_to_csv(file, id, p, value, t) ==
    Append(file, [id |-> id, timestamp |-> p.ts, value |-> value])

\* ------------------------------------------------------------------- state

TypeOK ==
    /\ now \in Nat
    /\ utcoffset \in LocalUtcOffsets
    /\ halted \in BOOLEAN
    /\ exitArgs \in {<<>>, <<0>>}
    /\ creator.pc \in {"new", "sleep", "post", "returned", "exited"}
    /\ nextId \in 1..(MaxReports + 1)
    /\ DOMAIN pollers \subseteq 1..MaxReports
    /\ \A id \in DOMAIN pollers :
         pollers[id].pc \in {"sleep", "get", "cadence", "done", "exited"}

\* httpx.AsyncClient(...): the n-th client constructed by the connect calls
\* of one object, owner 0 for the ReportCreator and the report id for a
\* ReportChecker
AsyncClient(owner, n) == [owner |-> owner, n |-> n]

\* ReportBase._client = None
NoClient == AsyncClient(0, 0)

\* The sleep flag the entry point hands to ReportCreator.connect
MainSleepFlag == FALSE

Init ==
    /\ now = 0
    /\ utcoffset \in LocalUtcOffsets
    /\ halted = FALSE
    /\ exitArgs = <<>>
    /\ creator = [pc |-> "new", wake |-> 0, client |-> NoClient, rid |-> 0,
                  sleep |-> MainSleepFlag, connects |-> 0]
    /\ nextId = 1
    /\ open = {}
    /\ pollers = [id \in {} |-> 0]
    /\ sink = <<>>
    /\ posts = <<>>

\* The history entry of a POST sent now
NewPost(id, client) ==
    [id |-> id, sentAt |-> now, client |-> client, state |-> "pending",
     status |-> 0, answeredAt |-> 0, timestamp |-> 0]

\* The history with its last POST answered
Answered(state, status, timestamp) ==
    [posts EXCEPT ![Len(posts)] =
        [@ EXCEPT !.state = state, !.status = status, !.answeredAt = now,
                  !.timestamp = timestamp]]

\* ReportBase._run of the creator, started at time t with client c after the
\* history became log: sleep if asked to, then ReportCreator._send_request up
\* to its first await (a fresh uuid4, the POST sent)
CreatorRun(c, sleep, t, lat, log) ==
    IF sleep
    THEN /\ creator' = [creator EXCEPT !.pc = "sleep", !.client = c,
                          !.connects = c.n,
                          !.wake = t + ReportCreator_sleeping_time]
         /\ posts' = log
         /\ nextId' = nextId
    ELSE /\ nextId <= MaxReports
         /\ creator' = [creator EXCEPT !.pc = "post", !.client = c,
                          !.connects = c.n,
                          !.wake = now + lat, !.rid = nextId]
         /\ posts' = Append(log, NewPost(nextId, c))
         /\ nextId' = nextId + 1

\* raise SystemExit(args) in a task: the exception leaves the event loop
Exit(args) ==
    /\ halted' = TRUE
    /\ exitArgs' = args

\* The entry point: ReportCreator().connect(sleep) opens the client and
\* awaits self._run(sleep)
CreatorConnect ==
    /\ ~halted
    /\ creator.pc = "new"
    /\ \E lat \in PostLatencies :
         CreatorRun(AsyncClient(0, 1), creator.sleep, now, lat, posts)
    /\ open' = open \cup {AsyncClient(0, 1)}
    /\ UNCHANGED <<now, utcoffset, halted, exitArgs, pollers, sink>>

\* asyncio.sleep(self._sleeping_time) of the creator is over: _send_request
CreatorWake ==
    /\ ~halted
    /\ creator.pc = "sleep"
    /\ now = creator.wake
    /\ \E lat \in PostLatencies : CreatorRun(creator.client, FALSE, now, lat, posts)
    /\ UNCHANGED <<now, utcoffset, halted, exitArgs, open,
                   pollers, sink>>

\* ReportBase._run of checker p, started with client c: sleep if asked to,
\* then ReportChecker._send_request up to its first await (count = 0, the
\* first GET sent)
CheckerRun(p, c, sleep, lat) ==
    IF sleep
    THEN [p EXCEPT !.pc = "sleep", !.client = c,
                   !.wake = now + ReportChecker_sleeping_time]
    ELSE [p EXCEPT !.pc = "get", !.client = c, !.wake = now + lat,
                   !.count = 0, !.gets = @ + 1, !.getClient = c,
                   !.getAt = now]

\* The ReportChecker constructed for report id with creation timestamp ts, and
\* its connect(sleep) up to the first await of _run
NewChecker(id, ts, sleep, lat) ==
    CheckerRun(
        [pc |-> "sleep", wake |-> 0, client |-> NoClient,
         ts |-> ts, sleep |-> sleep, count |-> 0,
         outcome |-> "none",
         \* history: GETs sent, their answers in order (0 for ConnectTimeout),
         \* ConnectTimeouts met, time_elapsed of the last deadline check, value
         \* of the 200 answer, time of leaving, the creator's client at
         \* creation, the client the last GET was sent through, the time it
         \* was sent at
         gets |-> 0, hist |-> <<>>, timeouts |-> 0, elapsed |-> 0, body |-> "",
         doneAt |-> 0, spawnClient |-> creator.client, getClient |-> NoClient,
         getAt |-> 0],
        ReportChecker_client(AsyncClient(id, 1), creator.client), sleep, lat)

\* The answer of the service to the creator's POST arrives, its status one of
\* statuses
PostAnswerOf(statuses) ==
    /\ ~halted
    /\ creator.pc = "post"
    /\ now = creator.wake
    /\ \E status \in statuses, lat \in PostLatencies, glat \in GetLatencies :
         LET chk  == _check_response(status, ReportCreator_expected_2xx_status_codes)
             ts   == get_timestamp_from_response(DateHeader(now), utcoffset)
             h    == ReportCreator_check_exception(status)
         IN  CASE chk = "ok" ->
                    /\ pollers' = [id \in DOMAIN pollers \cup {creator.rid} |->
                                     IF id = creator.rid
                                     THEN NewChecker(id, ts, checker_connect_sleep, glat)
                                     ELSE pollers[id]]
                    /\ open' = open \cup {pollers'[creator.rid].client}
                    /\ CreatorRun(creator.client, _run_default_sleep,
                                  gather_start(now), lat,
                                  Answered("answered", status, ts))
                    /\ UNCHANGED <<halted, exitArgs>>
               [] chk = "UnexpectedAPIStatusCode" ->
                    /\ Exit(UnexpectedAPIStatusCode_exit.args)
                    /\ creator' = [creator EXCEPT !.pc = "exited"]
                    /\ posts' = Answered("answered", status, 0)
                    /\ UNCHANGED <<nextId, open, pollers>>
               [] chk = "HTTPStatusError" /\ h.exit ->
                    /\ Exit(h.args)
                    /\ creator' = [creator EXCEPT !.pc = "exited"]
                    /\ posts' = Answered("answered", status, 0)
                    /\ UNCHANGED <<nextId, open, pollers>>
               [] chk = "HTTPStatusError" /\ ~h.exit /\ h.retry ->
                    /\ CreatorRun(creator.client, h.sleep, now, lat,
                                  Answered("answered", status, 0))
                    /\ UNCHANGED <<halted, exitArgs, open, pollers>>
               [] chk = "HTTPStatusError" /\ ~h.exit /\ ~h.retry ->
                    /\ creator' = [creator EXCEPT !.pc = "returned"]
                    /\ posts' = Answered("answered", status, 0)
                    /\ UNCHANGED <<halted, exitArgs, nextId, open,
                                   pollers>>
    /\ UNCHANGED <<now, utcoffset, sink>>

\* The answer of the service to the creator's POST arrives
PostAnswer == PostAnswerOf(PostStatuses)

\* ReportBase.connect of the creator catches httpx.ConnectTimeout after the
\* history became log: the client is closed and connect(sleep=sleep) runs
\* again
CreatorReconnect(log) ==
    /\ \E lat \in PostLatencies :
         CreatorRun(AsyncClient(0, creator.connects + 1), creator.sleep, now,
                    lat, log)
    /\ open' = connect_retry_open(open, creator.client,
                                  AsyncClient(0, creator.connects + 1))

\* The creator's POST raises httpx.ConnectTimeout: the exception leaves every
\* gather the creator awaits, the "async with" of ReportCreator.connect closes
\* the client, and connect(sleep=sleep) runs again
PostConnectTimeout ==
    /\ ~halted
    /\ creator.pc = "post"
    /\ now = creator.wake
    /\ CreatorReconnect(Answered("ConnectTimeout", 0, 0))
    /\ pollers' = gather_raised(pollers)
    /\ UNCHANGED <<now, utcoffset, halted, exitArgs, sink>>


\* GETs sent so far by the checkers of the reports in S
RECURSIVE GetsOf(_)
GetsOf(S) ==
    IF S = {} THEN 0
    ELSE LET id == CHOOSE i \in S : TRUE
         IN  pollers[id].gets + GetsOf(S \ {id})

TotalGets == GetsOf(DOMAIN pollers)

\* A sleep of checker id is over (the initial one of _run or the one between
\* two GETs): __make_request_and_check_response sends the GET, as long as
\* fewer than budget GETs were sent; the service takes one of latencies
PollerWakeWithin(id, budget, latencies) ==
    /\ ~halted
    /\ pollers[id].pc \in {"sleep", "cadence"}
    /\ now = pollers[id].wake
    /\ TotalGets < budget
    /\ \E lat \in latencies :
         pollers' = [pollers EXCEPT ![id] =
            [@ EXCEPT !.pc = "get", !.wake = now + lat,
                      !.count = IF pollers[id].pc = "sleep" THEN 0 ELSE @,
                      !.gets = @ + 1, !.getClient = pollers[id].client,
                      !.getAt = now]]
    /\ UNCHANGED <<now, utcoffset, halted, exitArgs, creator, nextId,
                   open, sink, posts>>

PollerWake(id) == PollerWakeWithin(id, MaxGets, GetLatencies)

\* Variant of Finished: the checker does not leave its loop, it sleeps and
\* polls again
Finished_polls_on(p, outcome) ==
    [p EXCEPT !.pc = "cadence", !.outcome = outcome, !.doneAt = now,
              !.wake = now + TIME_BETWEEN_GET_REQUESTS_IN_TENTHS]

\* Checker p leaves connect: _run returned, "async with" closes its client
Finished(p, outcome) ==
    [p EXCEPT !.pc = "done", !.outcome = outcome, !.doneAt = now]

\* SystemExit is raised in the task of checker p
Exited(p) == [p EXCEPT !.pc = "exited", !.outcome = "exit", !.doneAt = now]

\* The answer of the service to a GET of checker id arrives, its status one
\* of statuses
GetAnswerOf(id, statuses) ==
    /\ ~halted
    /\ pollers[id].pc = "get"
    /\ now = pollers[id].wake
    /\ \E status \in statuses, value \in Values :
         LET p    == [pollers[id] EXCEPT !.hist = Append(@, status)]
             chk  == _check_response(status, ReportChecker_expected_2xx_status_codes)
             e    == check_time_elapsed(now, p.ts, utcoffset)
             h    == ReportBase_check_exception(status)
         IN  CASE chk = "ok" /\ ~in_loop(status) ->
                    /\ sink' = add_new_line_to_csv(sink, id, p, value, now)
                    /\ pollers' = [pollers EXCEPT ![id] =
                                     Finished([p EXCEPT !.body = value], "ready")]
                    /\ open' = open \ {p.client}
                    /\ UNCHANGED <<halted, exitArgs>>
               [] chk = "ok" /\ in_loop(status) /\ e.raise ->
                    /\ pollers' = [pollers EXCEPT ![id] =
                                     [Finished(p, "expired") EXCEPT
                                        !.elapsed = e.elapsed]]
                    /\ open' = open \ {p.client}
                    /\ UNCHANGED <<halted, exitArgs, sink>>
               [] chk = "ok" /\ in_loop(status) /\ ~e.raise ->
                    /\ pollers' = [pollers EXCEPT ![id] =
                                     [p EXCEPT !.pc = "cadence",
                                               !.count = @ + 1,
                                               !.elapsed = e.elapsed,
                                               !.wake = now +
                                                 TIME_BETWEEN_GET_REQUESTS_IN_TENTHS]]
                    /\ UNCHANGED <<halted, exitArgs, sink, open>>
               [] chk = "UnexpectedAPIStatusCode" ->
                    /\ Exit(UnexpectedAPIStatusCode_exit.args)
                    /\ pollers' = [pollers EXCEPT ![id] = Exited(p)]
                    /\ UNCHANGED <<sink, open>>
               [] chk = "HTTPStatusError" /\ h.exit ->
                    /\ Exit(h.args)
                    /\ pollers' = [pollers EXCEPT ![id] = Exited(p)]
                    /\ UNCHANGED <<sink, open>>
               [] chk = "HTTPStatusError" /\ ~h.exit ->
                    /\ pollers' = [pollers EXCEPT ![id] = Finished(p, "http_error")]
                    /\ open' = open \ {p.client}
                    /\ UNCHANGED <<halted, exitArgs, sink>>
    /\ UNCHANGED <<now, utcoffset, creator, nextId, posts>>

\* The answer of the service to a GET of checker id arrives
GetAnswer(id) == GetAnswerOf(id, GetStatuses)

\* ReportBase.connect of checker id catches httpx.ConnectTimeout: the client
\* is closed and connect(sleep=sleep) runs again
CheckerReconnect(id) ==
    /\ \E lat \in GetLatencies :
         pollers' = [pollers EXCEPT ![id] =
            CheckerRun([@ EXCEPT !.timeouts = @ + 1, !.hist = Append(@, 0)],
                       ReportChecker_client(
                           AsyncClient(id, pollers[id].timeouts + 2),
                           creator.client),
                       pollers[id].sleep, lat)]
    /\ open' = connect_retry_open(open, pollers[id].client, pollers'[id].client)

\* A GET of checker id raises httpx.ConnectTimeout: the connect call that
\* catches it runs again; caught by the connect of the creator, the exception
\* has ended the checker
GetConnectTimeout(id) ==
    /\ ~halted
    /\ pollers[id].pc = "get"
    /\ now = pollers[id].wake
    /\ IF catching_connect(id) = id
       THEN /\ CheckerReconnect(id)
            /\ UNCHANGED <<creator, nextId, posts>>
       ELSE /\ pollers' = [pollers EXCEPT ![id] =
                   Finished([@ EXCEPT !.timeouts = @ + 1, !.hist = Append(@, 0)],
                            "ConnectTimeout")]
            /\ CreatorReconnect(posts)
    /\ UNCHANGED <<now, utcoffset, halted, exitArgs, sink>>

\* ------------------------------------------------------------------- time

\* The times of the events that will happen: sleeps that end and answers that
\* arrive.  A sleeper whose next request the bounds (reports created, GETs
\* sent) do not allow is left out.
EventTimesWithin(reports, gets) ==
    {creator.wake : x \in {y \in {1} :
        \/ creator.pc = "post"
        \/ creator.pc = "sleep" /\ nextId <= reports}}
    \cup {pollers[id].wake : id \in {i \in DOMAIN pollers :
        \/ pollers[i].pc = "get"
        \/ pollers[i].pc \in {"sleep", "cadence"} /\ TotalGets < gets}}

EventTimes == EventTimesWithin(MaxReports, MaxGets)

\* Time passes up to the next of the events at times; no event is skipped
TickTo(times) ==
    /\ ~halted
    /\ times # {}
    /\ \A t \in times : t > now
    /\ now' = CHOOSE t \in times : \A u \in times : t <= u
    /\ UNCHANGED <<utcoffset, halted, exitArgs, creator, nextId,
                   open, pollers, sink, posts>>

Tick == TickTo(EventTimes)

Next ==
    \/ CreatorConnect
    \/ CreatorWake
    \/ PostAnswer
    \/ PostConnectTimeout
    \/ \E id \in DOMAIN pollers : PollerWake(id)
    \/ \E id \in DOMAIN pollers : GetAnswer(id)
    \/ \E id \in DOMAIN pollers : GetConnectTimeout(id)
    \/ Tick

Spec == Init /\ [][Next]_vars


\* ------------------------------------------------------ history operators

Last(seq) == seq[Len(seq)]

\* POST number i was answered with this status
PostStatus(i, status) ==
    posts[i].state = "answered" /\ posts[i].status = status

Accepted(i) ==
    PostStatus(i, REQUESTS_FOR_CREATING_REPORT_SUCCESSFULLY_SENT_STATUS_CODE)

Conflict(i) == PostStatus(i, REPORT_ALREADY_EXISTS_STATUS_CODE)

\* The POST that carried report id
PostOf(id) == CHOOSE i \in 1..Len(posts) : posts[i].id = id

\* The lines of results.csv written for report id
RecordsOf(id) == {k \in 1..Len(sink) : sink[k].id = id}

Pending(id) == pollers[id].pc \in {"sleep", "get", "cadence"}

StillNotAvailable(seq) ==
    \A k \in 1..Len(seq) : seq[k] = REPORT_STILL_NOT_AVAILABLE_STATUS_CODE

\* ------------------------------------------------------------------ claims

\* C1: for a creation answered by k answers 409 and then 201, every POST
\* carries an identifier no earlier POST carried; a 409 is followed, without
\* any sleep, by exactly one further POST (sent at the time the 409 arrived),
\* so that the POSTs sent are the answers received plus the one in flight;
\* and a checker exists exactly for the identifiers that were answered 201.
C1_ConflictRetry ==
    /\ \A i \in 1..Len(posts) : \A j \in 1..(i - 1) : posts[j].id # posts[i].id
    /\ \A i \in 1..Len(posts) :
         Conflict(i) => /\ i < Len(posts)
                        /\ posts[i + 1].sentAt = posts[i].answeredAt
    /\ Len(posts) = Cardinality({i \in 1..Len(posts) : posts[i].state # "pending"})
                      + (IF creator.pc = "post" THEN 1 ELSE 0)
    /\ \A i \in 1..Len(posts) : posts[i].state = "pending" => i = Len(posts)
    /\ DOMAIN pollers = {posts[i].id : i \in {j \in 1..Len(posts) : Accepted(j)}}

\* C1 witness: 409, 409, 201: three POSTs, one checker, for the third id
C1_Witness ==
    /\ Len(posts) = 3
    /\ Conflict(1) /\ Conflict(2) /\ Accepted(3)
    /\ DOMAIN pollers = {posts[3].id}

\* C2: a checker whose GETs were answered by n answers 202 and then 200 with
\* value v has sent n+1 GETs, and results.csv holds exactly one line for its
\* report: the timestamp of the 201 answer and v, not the time of retrieval.
C2_ReadyOneRecord ==
    \A id \in DOMAIN pollers :
        LET p == pollers[id]
            n == Len(p.hist) - 1
        IN  (/\ p.hist # <<>>
             /\ Last(p.hist) = REPORT_RETRIEVED_STATUS_CODE
             /\ StillNotAvailable(SubSeq(p.hist, 1, n)))
            => /\ p.gets = n + 1
               /\ p.pc = "done"
               /\ Cardinality(RecordsOf(id)) = 1
               /\ \A k \in RecordsOf(id) :
                    /\ sink[k].timestamp = posts[PostOf(id)].timestamp
                    /\ sink[k].value = p.body
                    /\ sink[k].timestamp # utcnow_timestamp(p.doneAt, utcoffset)

\* C2 witness: 202 then 200, one line written
C2_Witness ==
    \E id \in DOMAIN pollers :
        /\ pollers[id].hist = <<REPORT_STILL_NOT_AVAILABLE_STATUS_CODE,
                                REPORT_RETRIEVED_STATUS_CODE>>
        /\ RecordsOf(id) # {}

\* Checker id was answered 202 by its last GET
LastStillNotAvailable(id) ==
    /\ pollers[id].hist # <<>>
    /\ Last(pollers[id].hist) = REPORT_STILL_NOT_AVAILABLE_STATUS_CODE

Deadline == MAX_TIME_FOR_RETRIEVING_REPORT_IN_SECONDS * TicksPerSecond

\* C3, in every state: a checker whose last answer was 202 seen with more
\* than 300 s elapsed has ended as expired, with every GET it sent answered
\* and no line written; seen with 300 s or less, it goes on polling.
C3_State ==
    \A id \in DOMAIN pollers :
        LastStillNotAvailable(id) =>
            IF pollers[id].elapsed > Deadline
            THEN /\ pollers[id].pc = "done"
                 /\ pollers[id].outcome = "expired"
                 /\ pollers[id].gets = Len(pollers[id].hist)
                 /\ RecordsOf(id) = {}
            ELSE /\ pollers[id].pc \in {"cadence", "get"}
                 /\ pollers[id].outcome = "none"

\* C3, in every step: the step in which a checker expires stops neither the
\* process nor the creator nor another checker, and an expired checker never
\* changes again.
C3_Step ==
    \A id \in DOMAIN pollers :
        /\ (pollers[id].outcome # "expired" /\ pollers'[id].outcome = "expired")
             => /\ ~halted'
                /\ creator' = creator
                /\ \A o \in DOMAIN pollers \ {id} : pollers'[o] = pollers[o]
        /\ pollers[id].outcome = "expired"
             => pollers'[id] = pollers[id] /\ RecordsOf(id)' = {}

\* C3: a 202 seen after more than 300 s ends that checker as expired (no
\* further GET, no record, the process keeps running); at 300 s or less the
\* checker keeps polling.
C3_Deadline == []C3_State /\ [][C3_Step]_vars

\* C3 witness: a checker expired while the process and the creator run on
C3_Witness ==
    \E id \in DOMAIN pollers :
        /\ pollers[id].outcome = "expired"
        /\ ~halted
        /\ creator.pc \in {"sleep", "post"}

\* C4: results.csv never holds more than one line for a report: exactly one
\* once its checker has retrieved it, none for any other checker.
C4_AtMostOneRecord ==
    /\ \A k \in 1..Len(sink) : sink[k].id \in DOMAIN pollers
    /\ \A id \in DOMAIN pollers :
         Cardinality(RecordsOf(id)) =
            IF pollers[id].outcome = "ready" THEN 1 ELSE 0

\* C4 witness: two reports retrieved, one with a checker that met a
\* ConnectTimeout, or one retrieved next to one that gave up
C4_Witness ==
    /\ Len(sink) >= 1
    /\ \E id \in DOMAIN pollers : pollers[id].outcome = "ready"
    /\ \E id \in DOMAIN pollers :
         pollers[id].outcome \in {"expired", "http_error"}

\* C5: the POST that follows a 201 is sent exactly when the 60 s creation
\* interval after that 201 is over, whatever the checker of the accepted
\* report is doing; while the creator sleeps the clock never passes the end
\* of its sleep.
C5_NextPostOnTime ==
    /\ \A i \in 2..Len(posts) :
         Accepted(i - 1) =>
            posts[i].sentAt = posts[i - 1].answeredAt + ReportCreator_sleeping_time
    /\ (creator.pc = "sleep" /\ nextId <= MaxReports /\ ~halted) =>
         /\ now <= creator.wake
         /\ Accepted(Len(posts))
         /\ creator.wake = Last(posts).answeredAt + ReportCreator_sleeping_time

\* C5 witness: the POST after a 201 has just been sent while the checker of
\* the accepted report is still waiting for the answer to a GET
C5_Witness ==
    /\ Len(posts) >= 2
    /\ Accepted(Len(posts) - 1)
    /\ Last(posts).state = "pending"
    /\ now = Last(posts).sentAt
    /\ posts[Len(posts) - 1].id \in DOMAIN pollers
    /\ pollers[posts[Len(posts) - 1].id].pc = "get"


\* POST number i was answered with a status the creator handles neither as
\* accepted nor as a conflict
Unhandled(i) ==
    /\ posts[i].state = "answered"
    /\ posts[i].status \notin {REQUESTS_FOR_CREATING_REPORT_SUCCESSFULLY_SENT_STATUS_CODE,
                               REPORT_ALREADY_EXISTS_STATUS_CODE}

\* POST number i was answered with an error status other than 409
OtherError(i) == Unhandled(i) /\ ~is_success(posts[i].status)

\* C6, in every state: a POST answered outside {201, 409} is the last POST
\* and the process has halted
C6_State ==
    \A i \in 1..Len(posts) :
        Unhandled(i) => halted /\ i = Len(posts) /\ creator.pc = "exited"

\* C6, in every step: once halted, no POST and no GET is sent
C6_Step == halted => UNCHANGED <<posts, pollers, creator, sink>>

\* C6: a creation answer outside {201, 409} (418, or a 2xx other than 201)
\* halts the whole process, in the first cycle and in later ones: no POST and
\* no GET follows it.
C6_UnhandledStatusHalts == []C6_State /\ [][C6_Step]_vars

\* C6 witness: 418 in a later cycle, with a checker's GET still in flight
C6_Witness ==
    /\ Len(posts) >= 2
    /\ Accepted(1)
    /\ PostStatus(Len(posts), 418)
    /\ halted
    /\ \E id \in DOMAIN pollers : pollers[id].pc = "get"

\* C7 as stated: after a POST answered with a 4xx/5xx other than 409 the
\* process runs on and the next creation cycle is scheduled or sending
C7_NextCycleProceeds ==
    \A i \in 1..Len(posts) :
        OtherError(i) => ~halted /\ creator.pc \in {"sleep", "post"}

\* C7 amended: a POST answered with a 4xx/5xx other than 409 ends the whole
\* process with SystemExit(0), exit status 0: it is the last POST, no
\* further creation cycle runs.
C7_OtherErrorExitsZero ==
    \A i \in 1..Len(posts) :
        OtherError(i) => /\ halted
                         /\ exitArgs = <<0>>
                         /\ ExitStatus(exitArgs) = 0
                         /\ i = Len(posts)
                         /\ creator.pc = "exited"

\* C7 witness: the POST of a scheduled cycle, after a 201, answered 500
C7_Witness ==
    /\ Len(posts) >= 2
    /\ Accepted(Len(posts) - 1)
    /\ PostStatus(Len(posts), 500)
    /\ halted

C8_State ==
    \A id \in DOMAIN pollers : \A k \in 1..Len(pollers[id].hist) :
        LET status == pollers[id].hist[k]
        IN  /\ (is_success(status)
                  /\ status \notin ReportChecker_expected_2xx_status_codes)
                 => /\ halted
                    /\ exitArgs = <<>>
                    /\ k = Len(pollers[id].hist)
                    /\ pollers[id].pc = "exited"
            /\ (status # 0 /\ ~is_success(status))
                 => /\ k = Len(pollers[id].hist)
                    /\ pollers[id].pc = "done"
                    /\ pollers[id].outcome = "http_error"
                    /\ pollers[id].gets = Len(pollers[id].hist)
                    /\ RecordsOf(id) = {}

\* C8 amended, in every step: the step in which a checker ends on an error
\* status leaves the process, the creator and the other checkers running
C8_Step ==
    \A id \in DOMAIN pollers :
        (pollers[id].outcome # "http_error" /\ pollers'[id].outcome = "http_error")
            => /\ ~halted'
               /\ creator' = creator
               /\ \A o \in DOMAIN pollers \ {id} : pollers'[o] = pollers[o]

GracefulExit == halted /\ creator.pc = "exited" /\ OtherError(Len(posts))

\* The process ended on an unexpected-status fault: a 2xx answer outside the
\* expected set of the call, a POST or a GET
FatalExit ==
    /\ halted
    /\ \/ creator.pc = "exited" /\ is_success(Last(posts).status)
       \/ \E id \in DOMAIN pollers : pollers[id].pc = "exited"

\* C9: the exit status is 0 on the graceful path and non-zero on an
\* unexpected-status fault
C9_ExitStatus ==
    /\ GracefulExit => ExitStatus(exitArgs) = 0
    /\ FatalExit => ExitStatus(exitArgs) # 0

\* ConnectTimeouts among the POSTs before POST number i
TimeoutsBefore(i) ==
    Cardinality({j \in 1..(i - 1) : posts[j].state = "ConnectTimeout"})

CheckerTimeoutStep(id) ==
    /\ id \in DOMAIN pollers
    /\ pollers'[id].timeouts = pollers[id].timeouts + 1

\* C11, in every state: a connector holds at most one open client; a POST
\* that raised ConnectTimeout is followed by the POST of the retried connect
\* cycle, sent at the time of the failure (the retry adds no wait and hands
\* on sleep=False) through the next client, the client of the failed cycle
\* being closed; the sleep flag of a connector never changes.
C11_State ==
    /\ \A a \in open : \A b \in open : a.owner = b.owner => a = b
    /\ \A i \in 1..Len(posts) :
         posts[i].state = "ConnectTimeout" =>
            /\ i < Len(posts)
            /\ posts[i + 1].sentAt = posts[i].answeredAt
            /\ posts[i + 1].client = AsyncClient(0, posts[i].client.n + 1)
            /\ posts[i].client \notin open
    /\ creator.sleep = MainSleepFlag
    /\ \A id \in DOMAIN pollers : pollers[id].sleep = checker_connect_sleep

\* C11, in every step: a checker whose GET raised ConnectTimeout is back in
\* the sleep its flag sleep=True asks for, for no longer than that sleep,
\* with a new open client, the client of the failed cycle being closed.
C11_Step ==
    \A id \in DOMAIN pollers :
        CheckerTimeoutStep(id) =>
            /\ pollers'[id].pc = "sleep"
            /\ pollers'[id].wake = now + ReportChecker_sleeping_time
            /\ pollers'[id].sleep = pollers[id].sleep
            /\ pollers'[id].client # pollers[id].client
            /\ pollers'[id].client \in open'
            /\ pollers[id].client \notin open'

C11_ConnectRetry == []C11_State /\ [][C11_Step]_vars

\* C11 witness: two connect cycles of the creator failed in a row, and a
\* checker was restarted by a ConnectTimeout
C11_Witness ==
    /\ \E i \in 1..(Len(posts) - 1) :
         posts[i].state = "ConnectTimeout" /\ posts[i + 1].state = "ConnectTimeout"
    /\ \E id \in DOMAIN pollers : pollers[id].timeouts >= 1

C12_State ==
    \A id \in DOMAIN pollers :
        LET p == pollers[id]
        IN  /\ p.pc = "done" <=> p.outcome \in {"ready", "expired", "http_error"}
            /\ p.pc = "exited" <=> p.outcome = "exit"
            /\ Pending(id) <=> p.outcome = "none"
            /\ p.outcome = "ready" =>
                  /\ Cardinality(RecordsOf(id)) = 1
                  /\ Last(p.hist) = REPORT_RETRIEVED_STATUS_CODE
            /\ p.outcome = "expired" =>
                  /\ RecordsOf(id) = {}
                  /\ Last(p.hist) = REPORT_STILL_NOT_AVAILABLE_STATUS_CODE
                  /\ p.elapsed > Deadline
            /\ p.outcome = "http_error" =>
                  /\ RecordsOf(id) = {}
                  /\ Last(p.hist) # 0
                  /\ ~is_success(Last(p.hist))

\* C12 amended, in every step: a checker that has ended never changes
\* again, and a checker goes back to its initial sleep in the steps in which
\* its GET raised ConnectTimeout and in no other step.
C12_Step ==
    \A id \in DOMAIN pollers :
        /\ pollers[id].pc = "done" => pollers'[id] = pollers[id]
        /\ (pollers[id].pc # "sleep" /\ pollers'[id].pc = "sleep")
              <=> CheckerTimeoutStep(id)

C13_State ==
    /\ creator.pc \in {"sleep", "post"} => creator.client \in open
    /\ \A id \in DOMAIN pollers :
         LET p == pollers[id]
         IN  /\ p.spawnClient \in open <=> p.spawnClient = creator.client
             /\ p.spawnClient \notin open =>
                   \E i \in (PostOf(id) + 1)..Len(posts) :
                       /\ posts[i].state = "ConnectTimeout"
                       /\ posts[i].client = p.spawnClient
             /\ Pending(id) => p.client.owner = id /\ p.client \in open
             /\ p.pc = "done" => p.client \notin open

\* C13 amended, in every step: the step that closes the client of the
\* creator's connect cycle changes no checker and closes no client of a
\* running checker.
C13_Step ==
    (creator.client \in open /\ creator.client \notin open') =>
        /\ pollers' = pollers
        /\ \A id \in DOMAIN pollers : Pending(id) => pollers[id].client \in open'

C14_CreationSpacing ==
    /\ posts # <<>> => posts[1].sentAt = 0
    /\ \A i \in 1..Len(posts) : \A j \in (i + 1)..Len(posts) :
         Accepted(i) =>
            posts[j].sentAt >= posts[i].answeredAt + ReportCreator_sleeping_time

\* C14 witness: a 201, then a POST that was retried because of a 409 or of a
\* ConnectTimeout, the retry sent
C14_Witness ==
    /\ Len(posts) = 3
    /\ Accepted(1)
    /\ Conflict(2) \/ posts[2].state = "ConnectTimeout"
    /\ posts[3].sentAt = posts[2].answeredAt

\* The time at which the checker of report id was created and its connect
\* called: the time the 201 arrived
SpawnedAt(id) == posts[PostOf(id)].answeredAt

\* The number of answers 202 at the end of seq
RECURSIVE Trailing202(_)
Trailing202(seq) ==
    IF seq = <<>> \/ Last(seq) # REPORT_STILL_NOT_AVAILABLE_STATUS_CODE
    THEN 0
    ELSE 1 + Trailing202(SubSeq(seq, 1, Len(seq) - 1))

\* C15, in every state: every GET of a checker was sent 30 s after the
\* checker was created or later; a checker sleeping between two GETs was
\* answered 202, made one deadline check per 202 of this run of its loop, the
\* last one at the time the 202 arrived, and sleeps 0.8 s from then; the GET
\* that follows a 202 was sent 0.8 s after the deadline check.
C15_State ==
    \A id \in DOMAIN pollers :
        LET p == pollers[id]
        IN  /\ p.gets > 0 => p.getAt >= SpawnedAt(id) + ReportChecker_sleeping_time
            /\ (p.pc = "sleep" /\ p.gets = 0) =>
                  p.wake = SpawnedAt(id) + ReportChecker_sleeping_time
            /\ p.pc = "cadence" =>
                  /\ LastStillNotAvailable(id)
                  /\ p.count = Trailing202(p.hist)
                  /\ p.elapsed =
                       utcnow_timestamp(p.wake - TIME_BETWEEN_GET_REQUESTS_IN_TENTHS,
                                        utcoffset) - p.ts
            /\ (p.pc = "get" /\ p.count > 0) =>
                  /\ p.count = Trailing202(p.hist)
                  /\ p.elapsed =
                       utcnow_timestamp(p.getAt - TIME_BETWEEN_GET_REQUESTS_IN_TENTHS,
                                        utcoffset) - p.ts

\* C15, in every step: a 202 after which the checker goes on makes one
\* deadline check, at the time of the answer, and then starts one sleep of
\* 0.8 s; the step that ends this sleep sends the GET and makes no deadline
\* check.
C15_Step ==
    \A id \in DOMAIN pollers :
        /\ (pollers[id].pc = "get" /\ pollers'[id].pc = "cadence") =>
              /\ pollers'[id].count = pollers[id].count + 1
              /\ pollers'[id].elapsed = utcnow_timestamp(now, utcoffset) - pollers[id].ts
              /\ pollers'[id].wake = now + TIME_BETWEEN_GET_REQUESTS_IN_TENTHS
        /\ (pollers[id].pc = "cadence" /\ pollers'[id] # pollers[id]) =>
              /\ pollers'[id].pc = "get"
              /\ now = pollers[id].wake
              /\ pollers'[id].gets = pollers[id].gets + 1
              /\ pollers'[id].count = pollers[id].count
              /\ pollers'[id].elapsed = pollers[id].elapsed

C15_PollTiming == []C15_State /\ [][C15_Step]_vars

\* C15 witness: a checker was answered 202 and has sent its second GET
C15_Witness ==
    \E id \in DOMAIN pollers :
        /\ pollers[id].pc = "get"
        /\ pollers[id].gets = 2
        /\ pollers[id].count = 1
        /\ pollers[id].hist = <<REPORT_STILL_NOT_AVAILABLE_STATUS_CODE>>

\* -------------------------------------------- one polling loop, served

\* The service accepts the creation and answers every GET, as soon as it is
\* sent, with 200 or 202
LivePostStatuses == {REQUESTS_FOR_CREATING_REPORT_SUCCESSFULLY_SENT_STATUS_CODE}

LiveGetStatuses ==
    {REPORT_RETRIEVED_STATUS_CODE, REPORT_STILL_NOT_AVAILABLE_STATUS_CODE}

LiveGetLatencies == {0}

\* The GETs one run of the loop of _send_request sends at most: the first
\* one 30 s after the creation timestamp at the earliest, one more every
\* 0.8 s as long as no more than 300 s have elapsed, and the one whose 202
\* is seen past the deadline
MaxPolls ==
    (Deadline - ReportChecker_sleeping_time)
        \div TIME_BETWEEN_GET_REQUESTS_IN_TENTHS + 2

\* GETs sent while one polling loop is followed to its end
LiveGets == MaxPolls + 1

LivePostAnswer == PostAnswerOf(LivePostStatuses)

LivePollerWake(id) ==
    id \in DOMAIN pollers /\ PollerWakeWithin(id, LiveGets, LiveGetLatencies)

LiveGetAnswer(id) ==
    id \in DOMAIN pollers /\ GetAnswerOf(id, LiveGetStatuses)

\* Time passes up to the next event of a checker: the creator, asleep after
\* the 201, creates no further report
LiveTick == TickTo(EventTimesWithin(nextId - 1, LiveGets))

LiveNext ==
    \/ CreatorConnect
    \/ LivePostAnswer
    \/ \E id \in 1..MaxReports : LivePollerWake(id)
    \/ \E id \in 1..MaxReports : LiveGetAnswer(id)
    \/ LiveTick

\* The event loop runs every callback that is ready, the clock advances and
\* every request is answered
LiveSpec ==
    /\ Init
    /\ [][LiveNext]_vars
    /\ WF_vars(CreatorConnect)
    /\ WF_vars(LivePostAnswer)
    /\ WF_vars(LiveTick)
    /\ \A id \in 1..MaxReports :
         WF_vars(LivePollerWake(id)) /\ WF_vars(LiveGetAnswer(id))

\* Checker id has left its loop as ready or as expired
Terminated(id) ==
    /\ id \in DOMAIN pollers
    /\ pollers[id].pc = "done"
    /\ pollers[id].outcome \in {"ready", "expired"}

\* C16: when the clock advances and every GET is answered with 200 or 202,
\* no checker sends more than MaxPolls GETs, and every checker eventually
\* leaves its loop as ready or as expired.
C16_BoundedRetry ==
    /\ [](\A id \in DOMAIN pollers : pollers[id].gets <= MaxPolls)
    /\ \A id \in 1..MaxReports : (id \in DOMAIN pollers) ~> Terminated(id)

\* C16 witness: a checker answered 202 by every GET has expired after
\* MaxPolls GETs
C16_Witness ==
    \E id \in DOMAIN pollers :
        /\ pollers[id].outcome = "expired"
        /\ pollers[id].gets = MaxPolls
        /\ StillNotAvailable(pollers[id].hist)

\* C17, in every state: a checker whose last answer is 200 has ended as
\* ready with one line written, whatever time has elapsed; a checker has
\* expired only on a 202; a checker that has ended has sent a GET.
C17_State ==
    \A id \in DOMAIN pollers :
        LET p == pollers[id]
        IN  /\ (p.hist # <<>> /\ Last(p.hist) = REPORT_RETRIEVED_STATUS_CODE) =>
                  /\ p.outcome = "ready"
                  /\ Cardinality(RecordsOf(id)) = 1
            /\ p.outcome = "expired" => LastStillNotAvailable(id)
            /\ p.pc = "done" => p.gets >= 1

\* C17, in every step: the deadline is checked only in the step in which a
\* 202 arrives; the step that ends the sleep of _run sends a GET without
\* any deadline check.
C17_Step ==
    \A id \in DOMAIN pollers :
        /\ pollers'[id].elapsed # pollers[id].elapsed =>
              pollers'[id].hist =
                  Append(pollers[id].hist, REPORT_STILL_NOT_AVAILABLE_STATUS_CODE)
        /\ (pollers[id].pc = "sleep" /\ pollers'[id] # pollers[id]) =>
              /\ pollers'[id].pc = "get"
              /\ pollers'[id].gets = pollers[id].gets + 1
              /\ pollers'[id].outcome = "none"

C17_DeadlineOnlyOn202 == []C17_State /\ [][C17_Step]_vars

\* C17 witness: a GET sent more than 300 s after the creation timestamp was
\* answered 200, and the line was written
C17_Witness ==
    \E id \in DOMAIN pollers :
        /\ pollers[id].outcome = "ready"
        /\ utcnow_timestamp(pollers[id].getAt, utcoffset) - pollers[id].ts > Deadline
        /\ RecordsOf(id) # {}

\* C18: at most one POST is unanswered, the last one, sent by the creator
\* that waits for its answer; every other POST was answered 201 or 409 or
\* raised ConnectTimeout, and exactly the next POST continues it: at once
\* after a 409 or a ConnectTimeout, 60 s after a 201; after a 201 the
\* creator sleeps, up to 60 s after the answer, and it sleeps at no other
\* time.
C18_State ==
    /\ Cardinality({i \in 1..Len(posts) : posts[i].state = "pending"}) <= 1
    /\ \A i \in 1..Len(posts) :
         posts[i].state = "pending" => i = Len(posts) /\ creator.pc = "post"
    /\ \A i \in 1..(Len(posts) - 1) :
         /\ Accepted(i) \/ Conflict(i) \/ posts[i].state = "ConnectTimeout"
         /\ posts[i + 1].sentAt =
               posts[i].answeredAt
                 + (IF Accepted(i) THEN ReportCreator_sleeping_time ELSE 0)
    /\ (posts # <<>> /\ Accepted(Len(posts))) =>
         /\ creator.pc = "sleep"
         /\ creator.wake = Last(posts).answeredAt + ReportCreator_sleeping_time
    /\ creator.pc = "sleep" => posts # <<>> /\ Accepted(Len(posts))

\* C18, in every step: a step that sends a POST sends one, and it is taken
\* by the creator: no step of a checker sends a POST or changes the creator.
C18_Step ==
    /\ Len(posts') <= Len(posts) + 1
    /\ (\E id \in DOMAIN pollers : pollers'[id] # pollers[id]) =>
         creator' = creator /\ posts' = posts

C18_OneCreationChain == []C18_State /\ [][C18_Step]_vars

\* C18 witness: a 201, a ConnectTimeout restart and a POST in flight, while
\* a checker runs
C18_Witness ==
    /\ Len(posts) = 3
    /\ Accepted(1)
    /\ posts[2].state = "ConnectTimeout"
    /\ posts[3].state = "pending"
    /\ \E id \in DOMAIN pollers : Pending(id)

\* Every GET of the sequence raised ConnectTimeout
OnlyTimeouts(seq) == \A k \in 1..Len(seq) : seq[k] = 0

\* C19, in every state: a checker all of whose GETs raised ConnectTimeout,
\* however many and however late, has neither expired nor ended: it sleeps
\* or waits for an answer, and no deadline check was made.
C19_State ==
    \A id \in DOMAIN pollers :
        OnlyTimeouts(pollers[id].hist) =>
            /\ pollers[id].pc \in {"sleep", "get"}
            /\ pollers[id].outcome = "none"
            /\ pollers[id].timeouts = Len(pollers[id].hist)
            /\ pollers[id].count = 0
            /\ pollers[id].elapsed = 0

\* C19, in every step: the step in which a GET of a checker raises
\* ConnectTimeout changes neither the creator nor the POSTs nor another
\* checker nor results.csv and does not stop the process; the checker keeps
\* its creation timestamp, makes no deadline check and sleeps 30 s from now;
\* a sleeping checker sends its GET when that sleep is over, not before.
C19_Step ==
    \A id \in DOMAIN pollers :
        /\ CheckerTimeoutStep(id) =>
              /\ creator' = creator /\ posts' = posts /\ nextId' = nextId
              /\ sink' = sink /\ ~halted'
              /\ DOMAIN pollers' = DOMAIN pollers
              /\ \A other \in DOMAIN pollers \ {id} :
                    pollers'[other] = pollers[other]
              /\ pollers'[id].ts = pollers[id].ts
              /\ pollers'[id].elapsed = pollers[id].elapsed
              /\ pollers'[id].outcome = "none"
              /\ pollers'[id].pc = "sleep"
              /\ pollers'[id].wake = now + ReportChecker_sleeping_time
        /\ (pollers[id].pc = "sleep" /\ pollers'[id].pc = "get") =>
              now = pollers[id].wake

C19_PollerRestartsAlone == []C19_State /\ [][C19_Step]_vars

\* C19 witness: a checker restarted twice sleeps again, more than 300 s
\* after its creation timestamp, while the creator goes on
C19_Witness ==
    \E id \in DOMAIN pollers :
        /\ pollers[id].timeouts = 2
        /\ pollers[id].pc = "sleep"
        /\ utcnow_timestamp(now, utcoffset) - pollers[id].ts > Deadline
        /\ creator.pc \in {"sleep", "post"}

\* Step in which a POST of the creator raised httpx.ConnectTimeout
CreatorTimeoutStep ==
    /\ posts # <<>>
    /\ Last(posts).state = "pending"
    /\ Len(posts') = Len(posts) + 1
    /\ posts'[Len(posts)].state = "ConnectTimeout"

\* C20, in every state: a checker that ended as ready after a ConnectTimeout
\* of a POST sent after its creation has written its one line.
C20_State ==
    \A id \in DOMAIN pollers : \A i \in (PostOf(id) + 1)..Len(posts) :
        (/\ posts[i].state = "ConnectTimeout"
         /\ pollers[id].outcome = "ready"
         /\ pollers[id].doneAt >= posts[i].answeredAt)
        => Cardinality(RecordsOf(id)) = 1

\* C20, in every step: the step in which a POST raises ConnectTimeout opens
\* a new client for the creator and sends a new POST through it at once;
\* it changes no checker, closes no client of a checker, writes nothing and
\* does not stop the process.
C20_Step ==
    CreatorTimeoutStep =>
        /\ creator'.pc = "post"
        /\ Last(posts').sentAt = now /\ now' = now
        /\ Last(posts').id # Last(posts).id
        /\ creator'.client # creator.client
        /\ Last(posts').client = creator'.client
        /\ creator'.client \in open'
        /\ pollers' = pollers
        /\ \A id \in DOMAIN pollers : Pending(id) => pollers[id].client \in open'
        /\ sink' = sink
        /\ ~halted'

C20_CreatorRestartsAlone == []C20_State /\ [][C20_Step]_vars

\* C20 witness: a checker created before a POST of a later cycle raised
\* ConnectTimeout, never restarted, has ended as ready after it and written
\* its line
C20_Witness ==
    \E id \in DOMAIN pollers : \E i \in (PostOf(id) + 1)..Len(posts) :
        /\ posts[i].state = "ConnectTimeout"
        /\ pollers[id].timeouts = 0
        /\ pollers[id].outcome = "ready"
        /\ pollers[id].doneAt > posts[i].answeredAt
        /\ RecordsOf(id) # {}

====
